---- MODULE Spec2Model ----
(***************************************************************************)
(* Circuit-family / result-decoding / statistics-and-classification        *)
(* pipeline of the quantum-paradoxes experiments (CHSH-Bell, GHZ, Zeno,    *)
(* pigeonhole).  Bitstrings are sequences of 0/1 (the key "01" is          *)
(* <<0, 1>>), histograms are functions from bitstrings to counts, and a    *)
(* Python float obtained by dividing two integers is the exact rational    *)
(* in lowest terms.                                                        *)
(***************************************************************************)
EXTENDS Integers, Sequences, FiniteSets, TLC

VARIABLES
    pub_result,         \* decoder: the result handle given to extract_counts
    circuit,            \* decoder: the circuit given to extract_counts
    outcome,            \* decoder: what extract_counts did (idle before the call)
    counts,             \* statistics: the histogram given to a derivation
    total,              \* statistics: the total given to a derivation
    stat,               \* statistics: which derivation was applied ("none" before)
    value,              \* statistics: what the derivation returned or raised
    program,            \* pipeline: which experiment's main() is running
    pc,                 \* pipeline: position of main()
    shots,              \* pipeline: the configured shot count
    idx,                \* pipeline: loop index of the current loop
    processed_results,  \* pipeline: label -> [counts, total] stored by the run
    correlators,        \* CHSH analyze_results: setting -> E
    S,                  \* CHSH analyze_results: the CHSH value
    verdict,            \* analyze_results: the printed verdict ("" before)
    error,              \* main: the exception reported by main's handler ("" if none)
    circuits,           \* run: the circuit list that is submitted
    labels,             \* run: the label list walked by the processing loop
    result,             \* run: the result handles returned by job.result()
    submitted,          \* run: how many times sampler.run was called
    measurement_counts, \* Zeno run: the requested measurement counts
    parity,             \* GHZ analyze_results: basis -> parity fractions
    num_measurements,   \* generator: the num_measurements argument
    total_angle,        \* generator: the total_angle argument, in units of pi
    generator,          \* generator: which function was called ("none" before)
    generated           \* generator: what the function returned or raised

decVars  == <<pub_result, circuit, outcome>>
statVars == <<counts, total, stat, value>>
runVars  == <<program, pc, shots, idx, processed_results, correlators, S, verdict, error,
             circuits, labels, result, submitted, measurement_counts, parity>>
genVars  == <<num_measurements, total_angle, generator, generated>>
vars     == <<decVars, statVars, runVars, genVars>>

-----------------------------------------------------------------------------
(* Bounds of the model *)

\* largest count a drawn histogram gives to one outcome
MaxCount == 2

\* largest total passed to a derivation independently of the histogram
MaxTotal == 3

-----------------------------------------------------------------------------
(* Python values *)

\* {} : the empty dict
EmptyHist == [k \in {} |-> 0]

\* bool(counts): a dict is truthy iff it has a key
Truthy(h) == DOMAIN h # {}

\* counts.get(k, 0)
Get(h, k) == IF k \in DOMAIN h THEN h[k] ELSE 0

RECURSIVE SumOver(_, _)
SumOver(h, ks) ==
    IF ks = {} THEN 0
    ELSE LET k == CHOOSE x \in ks : TRUE IN h[k] + SumOver(h, ks \ {k})

\* sum(counts.values())
SumValues(h) == SumOver(h, DOMAIN h)

Abs(n) == IF n < 0 THEN -n ELSE n

RECURSIVE Gcd(_, _)
Gcd(a, b) == IF b = 0 THEN a ELSE Gcd(b, a % b)

\* a float that is the quotient of two integers: the rational n/d, d > 0, in
\* lowest terms; or the exception its computation raised
Rat(n, d) == [kind |-> "num", n |-> n, d |-> d]
Raised(e) == [kind |-> "raise", n |-> 0, d |-> 1, exc |-> e]
IsNum(x)  == x.kind = "num"
Norm(n, d) ==
    LET g == Gcd(Abs(n), Abs(d))
        s == IF d < 0 THEN -1 ELSE 1
    IN  [kind |-> "num", n |-> s * (n \div g), d |-> s * (d \div g)]

\* a / b  (true division: ZeroDivisionError when b is 0)
Div(a, b) == IF b = 0 THEN Raised("ZeroDivisionError") ELSE Norm(a, b)

\* x + y, x - y on floats; an operand that was never computed propagates
RAdd(x, y) ==
    IF ~IsNum(x) THEN x ELSE IF ~IsNum(y) THEN y
    ELSE Norm(x.n * y.d + y.n * x.d, x.d * y.d)
RNeg(x)    == IF IsNum(x) THEN [x EXCEPT !.n = -x.n] ELSE x
RSub(x, y) == RAdd(x, RNeg(y))
RAbs(x)    == IF IsNum(x) THEN [x EXCEPT !.n = Abs(x.n)] ELSE x
\* x > y, x <= y for two floats
RGt(x, y)  == x.n * y.d > y.n * x.d
RLe(x, y)  == ~RGt(x, y)
RInt(n)    == Rat(n, 1)

-----------------------------------------------------------------------------
(* Result handles *)

\* dir(pub_result.data): attribute names in sorted order
DirOrder == <<"_p", "b", "c", "c0", "cr", "meas">>
Names    == {DirOrder[i] : i \in 1..Len(DirOrder)}

\* attr.startswith("_")
IsPrivate(attr) == attr = "_p"

\* what one attribute of pub_result.data is:
\*   absent   no such attribute
\*   none     the attribute is None
\*   noacc    an object without get_counts
\*   counts   get_counts() returns the histogram .counts
\*   attrerr  get_counts() raises AttributeError
\*   error    get_counts() raises another exception
Kinds == {"absent", "none", "noacc", "counts", "attrerr", "error"}
Field(k, h) == [kind |-> k, counts |-> h]

\* the field holds an object on which hasattr(data, "get_counts") is true
HasAccessor(f) == f.kind \in {"counts", "attrerr", "error"}

\* what a call of extract_counts, or of one of its steps, did
Return(h)    == [kind |-> "return", value |-> h, exc |-> ""]
Raise(e)     == [kind |-> "raise", value |-> EmptyHist, exc |-> e]
Pass         == [kind |-> "pass", value |-> EmptyHist, exc |-> ""]
Idle         == [kind |-> "idle", value |-> EmptyHist, exc |-> ""]

\* data.get_counts() on a field that is not None
get_counts(f) ==
    CASE f.kind = "counts"  -> Return(f.counts)
      [] f.kind = "error"   -> Raise("RuntimeError")
      [] OTHER              -> Raise("AttributeError")

\* getattr(pub_result.data, name, None) is None
IsNone(pr, name) ==
    \/ name \notin Names
    \/ pr.data[name].kind \in {"absent", "none"}

\* circuit.cregs[0].name if circuit.cregs else "c"
creg_name(circ) == IF circ.cregs # <<>> THEN circ.cregs[1] ELSE "c"

-----------------------------------------------------------------------------
(* Result Decoder: extract_counts *)

\* step 1 without its try/except: AttributeError reaches the caller
Step1_NoExcept(pr, circ) ==
    IF ~pr.hasData THEN Raise("AttributeError")
    ELSE IF IsNone(pr, creg_name(circ)) THEN Pass
    ELSE get_counts(pr.data[creg_name(circ)])

\* step 1: the field named by the circuit's first classical register;
\* AttributeError (no .data, no get_counts) and IndexError are swallowed
Step1(pr, circ) ==
    IF ~pr.hasData THEN Pass
    ELSE IF IsNone(pr, creg_name(circ)) THEN Pass
    ELSE LET r == get_counts(pr.data[creg_name(circ)])
         IN  IF r.kind = "raise" /\ r.exc \in {"AttributeError", "IndexError"}
             THEN Pass ELSE r

\* for name in ["meas", "c", "c0"]
Conventional == <<"meas", "c", "c0">>

\* the loop of step 2 from its i-th name on: the first field that is not None
\* has get_counts called; whatever that does ends the loop
RECURSIVE Probe(_, _)
Probe(pr, i) ==
    IF i > Len(Conventional) THEN Pass
    ELSE IF IsNone(pr, Conventional[i]) THEN Probe(pr, i + 1)
    ELSE get_counts(pr.data[Conventional[i]])

\* step 2: the conventional labels; only AttributeError is swallowed
Step2(pr) ==
    IF ~pr.hasData THEN Pass
    ELSE LET r == Probe(pr, 1)
         IN  IF r.kind = "raise" /\ r.exc = "AttributeError" THEN Pass ELSE r

\* the scan of step 3 restricted to the conventional labels
Scan_ConventionalOnly(pr, i) ==
    LET hit == {j \in 1..Len(Conventional) :
                   HasAccessor(pr.data[Conventional[j]])}
    IN  IF hit = {} THEN Pass
        ELSE get_counts(pr.data[Conventional[CHOOSE j \in hit : \A m \in hit : j <= m]])

\* the loop of step 3 from the i-th name of dir() on: the first public
\* attribute with a get_counts has it called
RECURSIVE Scan(_, _)
Scan(pr, i) ==
    IF i > Len(DirOrder) THEN Pass
    ELSE LET attr == DirOrder[i]
             data == pr.data[attr]
         IN  IF data.kind = "absent" \/ IsPrivate(attr) THEN Scan(pr, i + 1)
             ELSE IF HasAccessor(data) THEN get_counts(data)
             ELSE Scan(pr, i + 1)

\* step 3: the generic scan; every exception is swallowed
Step3(pr) ==
    IF ~pr.hasData THEN Pass
    ELSE LET r == Scan(pr, 1) IN IF r.kind = "raise" THEN Pass ELSE r

extract_counts(pr, circ) ==
    LET s1 == Step1(pr, circ)
        s2 == Step2(pr)
        s3 == Step3(pr)
    IN  IF s1.kind # "pass" THEN s1
        ELSE IF s2.kind # "pass" THEN s2
        ELSE IF s3.kind # "pass" THEN s3
        ELSE Return(EmptyHist)

-----------------------------------------------------------------------------
(* Inputs of the decoder *)

\* the histogram a field's accessor returns: one per field, all different
RECURSIVE IndexOf(_, _)
IndexOf(name, i) == IF DirOrder[i] = name THEN i ELSE IndexOf(name, i + 1)
FieldHist(name) == (<<0>> :> IndexOf(name, 1))

\* a private field is either missing or holds data (nothing else matters:
\* no step reads it)
KindsOf(name) == IF IsPrivate(name) THEN {"absent", "counts"} ELSE Kinds

NoData == [hasData |-> FALSE,
           data |-> [n \in Names |-> Field("absent", EmptyHist)]]

Handles ==
    {NoData} \cup
    { [hasData |-> TRUE,
       data |-> [n \in Names |->
                   Field(ks[n], IF ks[n] = "counts" THEN FieldHist(n) ELSE EmptyHist)]]
      : ks \in {f \in [Names -> Kinds] : \A n \in Names : f[n] \in KindsOf(n)} }

\* a circuit, as far as the decoder reads it: the names of its classical
\* registers
Circuit(cregs) == [cregs |-> cregs]
Circuits == {Circuit(<<>>), Circuit(<<"c">>), Circuit(<<"cr">>)}

-----------------------------------------------------------------------------
(* Statistics Engine *)

K00 == <<0, 0>>
K01 == <<0, 1>>
K10 == <<1, 0>>
K11 == <<1, 1>>

\* the correlator with "11" left out of the agreeing outcomes
calculate_correlator_No11(cnts, tot) ==
    Div(Get(cnts, K00) - (Get(cnts, K01) + Get(cnts, K10)), tot)

\* E = (same - diff) / total
calculate_correlator(cnts, tot) ==
    LET same == Get(cnts, K00) + Get(cnts, K11)
        diff == Get(cnts, K01) + Get(cnts, K10)
    IN  Div(same - diff, tot)

\* outcome.zfill(3): pad with "0" on the left up to three characters
RECURSIVE zfill(_, _)
zfill(b, w) == IF Len(b) >= w THEN b ELSE zfill(<<0>> \o b, w)

\* analyze_sharing with the any-pair test leaving out pigeons 0 and 2
analyze_sharing_NoPair02(cnts, tot) ==
    LET P(k, i)   == zfill(k, 3)[i]
        Eq01(k)   == P(k, 1) = P(k, 2)
        Eq12(k)   == P(k, 2) = P(k, 3)
        Eq02(k)   == P(k, 1) = P(k, 3)
        EqAny(k)  == Eq01(k) \/ Eq12(k)
    IN  IF tot = 0
        THEN [kind |-> "raise", exc |-> "ZeroDivisionError"]
        ELSE [kind |-> "num",
              pair_01 |-> Div(SumOver(cnts, {k \in DOMAIN cnts : Eq01(k)}), tot),
              pair_12 |-> Div(SumOver(cnts, {k \in DOMAIN cnts : Eq12(k)}), tot),
              pair_02 |-> Div(SumOver(cnts, {k \in DOMAIN cnts : Eq02(k)}), tot),
              any     |-> Div(SumOver(cnts, {k \in DOMAIN cnts : EqAny(k)}), tot)]

\* analyze_sharing(counts, total): the fraction of the weight in which each
\* pair of pigeons, and any pair, shares a box
analyze_sharing(cnts, tot) ==
    LET P(k, i)   == zfill(k, 3)[i]
        Eq01(k)   == P(k, 1) = P(k, 2)
        Eq12(k)   == P(k, 2) = P(k, 3)
        Eq02(k)   == P(k, 1) = P(k, 3)
        EqAny(k)  == Eq01(k) \/ Eq12(k) \/ Eq02(k)
    IN  IF tot = 0
        THEN [kind |-> "raise", exc |-> "ZeroDivisionError"]
        ELSE [kind |-> "num",
              pair_01 |-> Div(SumOver(cnts, {k \in DOMAIN cnts : Eq01(k)}), tot),
              pair_12 |-> Div(SumOver(cnts, {k \in DOMAIN cnts : Eq12(k)}), tot),
              pair_02 |-> Div(SumOver(cnts, {k \in DOMAIN cnts : Eq02(k)}), tot),
              any     |-> Div(SumOver(cnts, {k \in DOMAIN cnts : EqAny(k)}), tot)]

\* k.count("1")
RECURSIVE CountOnes(_)
CountOnes(k) == IF k = <<>> THEN 0 ELSE Head(k) + CountOnes(Tail(k))

\* the parity fractions with every key that holds a "1" counted as odd
parity_fractions_AnyOne(cnts, tot) ==
    LET Even(k) == CountOnes(k) % 2 = 0
        Odd(k)  == CountOnes(k) >= 1
        even_count == SumOver(cnts, {k \in DOMAIN cnts : Even(k)})
        odd_count  == SumOver(cnts, {k \in DOMAIN cnts : Odd(k)})
    IN  IF tot = 0
        THEN [kind |-> "raise", exc |-> "ZeroDivisionError"]
        ELSE [kind |-> "num", even_count |-> even_count, odd_count |-> odd_count,
              even |-> Div(even_count, tot), odd |-> Div(odd_count, tot)]

\* the parity fractions of a basis: even_count / total and odd_count / total
parity_fractions(cnts, tot) ==
    LET Even(k) == CountOnes(k) % 2 = 0
        Odd(k)  == CountOnes(k) % 2 = 1
        even_count == SumOver(cnts, {k \in DOMAIN cnts : Even(k)})
        odd_count  == SumOver(cnts, {k \in DOMAIN cnts : Odd(k)})
    IN  IF tot = 0
        THEN [kind |-> "raise", exc |-> "ZeroDivisionError"]
        ELSE [kind |-> "num", even_count |-> even_count, odd_count |-> odd_count,
              even |-> Div(even_count, tot), odd |-> Div(odd_count, tot)]

\* the first character of the key instead of the last
final_bit_First(k) == IF k # <<>> THEN k[1] ELSE 0

\* bitstring[-1] if bitstring else "0"
final_bit(k) == IF k # <<>> THEN k[Len(k)] ELSE 0

\* the loop over counts.items() that adds count / total_counts to prob_0 or
\* prob_1, over the keys ks still to visit
RECURSIVE MarginalLoop(_, _, _, _)
MarginalLoop(cnts, tot, ks, acc) ==
    IF ks = {} \/ acc.kind = "raise" THEN acc
    ELSE LET k == CHOOSE x \in ks : TRUE
             q == Div(cnts[k], tot)
             next ==
                 IF ~IsNum(q) THEN [acc EXCEPT !.kind = "raise"]
                 ELSE IF final_bit(k) = 0
                      THEN [acc EXCEPT !.prob_0 = RAdd(@, q)]
                      ELSE [acc EXCEPT !.prob_1 = RAdd(@, q)]
         IN  MarginalLoop(cnts, tot, ks \ {k}, next)

final_bit_marginal(cnts, tot) ==
    MarginalLoop(cnts, tot, DOMAIN cnts,
                 [kind |-> "num", prob_0 |-> RInt(0), prob_1 |-> RInt(0)])

\* "0" * (n_meas + 1)
RECURSIVE Zeros(_)
Zeros(n) == IF n <= 0 THEN <<>> ELSE <<0>> \o Zeros(n - 1)

\* the survival probability read from the key of n_meas zeros
survival_prob_OneShort(cnts, tot, n_meas) ==
    LET survival_count == Get(cnts, Zeros(n_meas))
    IN  IF tot > 0 THEN Div(survival_count, tot) ELSE RInt(0)

\* survival_count / total_counts if total_counts > 0 else 0
survival_prob(cnts, tot, n_meas) ==
    LET survival_count == Get(cnts, Zeros(n_meas + 1))
    IN  IF tot > 0 THEN Div(survival_count, tot) ELSE RInt(0)

-----------------------------------------------------------------------------
(* Inputs of the statistics *)

\* most keys a drawn three-bit histogram has
MaxKeys == 2

\* most checkpoints of a survival circuit
MaxMeas == 2

Bits(n) == [1..n -> {0, 1}]

\* every histogram over the keys ks with counts up to MaxCount
HistsOver(ks) ==
    UNION { [d -> 0..MaxCount] : d \in SUBSET ks }

Hists1 == HistsOver(Bits(1))
Hists2 == HistsOver(Bits(2))
Hists3 == UNION { [d -> 0..MaxCount] :
                    d \in {x \in SUBSET Bits(3) : Cardinality(x) <= MaxKeys} }

\* one shot on each of the eight three-bit outcomes
H_uniform8 == [k \in Bits(3) |-> 1]

StatHists == Hists1 \cup Hists2 \cup Hists3 \cup {H_uniform8}

-----------------------------------------------------------------------------
(* The parts of the state a specification does not use *)

DecOff ==
    /\ pub_result = NoData
    /\ circuit = Circuit(<<>>)
    /\ outcome = Pass

StatOff ==
    /\ counts = EmptyHist
    /\ total = 0
    /\ stat = "off"
    /\ value = RInt(0)

RunOff ==
    /\ program = "none"
    /\ pc = "off"
    /\ shots = 0
    /\ idx = 0
    /\ processed_results = <<>>
    /\ correlators = <<>>
    /\ parity = <<>>
    /\ S = RInt(0)
    /\ verdict = ""
    /\ error = ""
    /\ circuits = <<>>
    /\ labels = <<>>
    /\ result = <<>>
    /\ submitted = 0
    /\ measurement_counts = <<>>

GenOff ==
    /\ num_measurements = 0
    /\ total_angle = RInt(1)
    /\ generator = "off"
    /\ generated = RInt(0)

-----------------------------------------------------------------------------
(* The decoder applied to one result handle *)

InitDecode ==
    /\ pub_result \in Handles
    /\ circuit \in Circuits
    /\ outcome = Idle
    /\ StatOff /\ RunOff /\ GenOff

Decode ==
    /\ outcome.kind = "idle"
    /\ outcome' = extract_counts(pub_result, circuit)
    /\ UNCHANGED <<pub_result, circuit, statVars, runVars, genVars>>

NextDecode == Decode

SpecDecode == InitDecode /\ [][NextDecode]_vars

-----------------------------------------------------------------------------
(* One derivation applied to one histogram and total *)

InitStats ==
    /\ counts \in StatHists
    /\ total \in (0..MaxTotal) \cup {SumValues(counts)}
    /\ stat = "none"
    /\ value = RInt(0)
    /\ DecOff /\ RunOff /\ GenOff

Apply(name, v) ==
    /\ stat = "none"
    /\ stat' = name
    /\ value' = v
    /\ UNCHANGED <<counts, total, decVars, runVars, genVars>>

ApplyCorrelator == Apply("correlator", calculate_correlator(counts, total))
ApplySharing    == Apply("sharing", analyze_sharing(counts, total))
ApplyParity     == Apply("parity", parity_fractions(counts, total))
ApplyMarginal   == Apply("marginal", final_bit_marginal(counts, total))
ApplySurvival   ==
    \E n \in 0..MaxMeas :
        Apply("survival", [n_meas |-> n, p |-> survival_prob(counts, total, n)])

NextStats ==
    \/ ApplyCorrelator
    \/ ApplySharing
    \/ ApplyParity
    \/ ApplyMarginal
    \/ ApplySurvival

SpecStats == InitStats /\ [][NextStats]_vars

-----------------------------------------------------------------------------
(* What every experiment run shares *)

\* run_experiment(shots=4096)
DefaultShots == 4096

ShotChoices == {0, DefaultShots}

\* the total that always is the sum of the counts
RecordTotal_SumOnly(cnts, nominal) == SumValues(cnts)

\* sum(counts.values()) if counts else shots
RecordTotal(cnts, nominal) == IF Truthy(cnts) THEN SumValues(cnts) ELSE nominal

\* processed_results[key] = entry
Store(results, key, entry) == (key :> entry) @@ results

\* a result handle in the shape SamplerV2 gives for a circuit whose classical
\* register is "c": the histogram is behind data.c
HandleWith(h) ==
    [hasData |-> TRUE,
     data |-> [n \in Names |->
                 IF n = "c" THEN Field("counts", h) ELSE Field("absent", EmptyHist)]]

\* a result handle whose data.c accessor fails with an exception that is not
\* an AttributeError
BrokenHandle ==
    [hasData |-> TRUE,
     data |-> [n \in Names |->
                 IF n = "c" THEN Field("error", EmptyHist)
                 ELSE Field("absent", EmptyHist)]]

\* main's handler: except Exception as e: print(f"\nError: {e}")
Fail(e) ==
    /\ pc' = "error"
    /\ error' = e

-----------------------------------------------------------------------------
(* CHSH-Bell: chsh-bell/main.py *)

create_chsh_circuit(a, b) ==
    [name |-> <<"CHSH", a, b>>, cregs |-> <<"c">>]

create_classical_correlation_circuit ==
    [name |-> <<"classical">>, cregs |-> <<"c">>]

\* the four circuits with Bob's setting in the outer loop
create_all_chsh_circuits_BobOuter ==
    <<create_chsh_circuit(0, 0), create_chsh_circuit(1, 0),
      create_chsh_circuit(0, 1), create_chsh_circuit(1, 1)>>

\* for a in [0, 1]: for b in [0, 1]: circuits.append(create_chsh_circuit(a, b))
create_all_chsh_circuits ==
    <<create_chsh_circuit(0, 0), create_chsh_circuit(0, 1),
      create_chsh_circuit(1, 0), create_chsh_circuit(1, 1)>>

chsh_labels == <<"A0B0", "A0B1", "A1B0", "A1B1", "classical">>

\* for setting in ["A0B0", "A0B1", "A1B0", "A1B1"]
chsh_settings == <<"A0B0", "A0B1", "A1B0", "A1B1">>

\* the CHSH value with the last correlator added instead of subtracted
chsh_S_AllPlus(corr) ==
    RAdd(RAdd(RAdd(corr["A0B0"], corr["A0B1"]), corr["A1B0"]), corr["A1B1"])

\* S = correlators["A0B0"] + correlators["A0B1"] + correlators["A1B0"]
\*       - correlators["A1B1"]
chsh_S(corr) ==
    RSub(RAdd(RAdd(corr["A0B0"], corr["A0B1"]), corr["A1B0"]), corr["A1B1"])

\* classical_bound = 2.0
classical_bound == RInt(2)

\* the verdict that also counts |S| equal to the bound as a violation
chsh_verdict_AtBound(s) ==
    IF ~RGt(classical_bound, RAbs(s)) THEN "violated" ELSE "no_violation"

\* if abs(S) > classical_bound: "BELL INEQUALITY VIOLATED" else "No violation"
chsh_verdict(s) ==
    IF RGt(RAbs(s), classical_bound) THEN "violated" ELSE "no_violation"

\* the histograms the backend returns in this model
H_same == (K00 :> 500) @@ (K11 :> 500)
H_diff == (K01 :> 500) @@ (K10 :> 500)
H_near == (K00 :> 10) @@ (K01 :> 11)
H_zero == (K00 :> 0)

ChshHandles ==
    {HandleWith(H_same), HandleWith(H_diff), HandleWith(H_near),
     HandleWith(H_zero), NoData, BrokenHandle}

InitCHSH ==
    /\ program = "chsh-bell"
    /\ pc = "start"
    /\ shots \in ShotChoices
    /\ idx = 0
    /\ processed_results = <<>>
    /\ correlators = <<>>
    /\ parity = <<>>
    /\ S = RInt(0)
    /\ verdict = ""
    /\ error = ""
    /\ circuits = <<>>
    /\ labels = <<>>
    /\ result = <<>>
    /\ submitted = 0
    /\ measurement_counts = <<>>
    /\ DecOff /\ StatOff /\ GenOff

\* run_experiment up to transpile: connect, pick the backend, build the
\* circuit list; the service may fail
ChshPrepare ==
    /\ program = "chsh-bell"
    /\ pc = "start"
    /\ \/ /\ circuits' = create_all_chsh_circuits
                           \o <<create_classical_correlation_circuit>>
          /\ labels' = chsh_labels
          /\ pc' = "submit"
          /\ UNCHANGED error
       \/ /\ Fail("ServiceError")
          /\ UNCHANGED <<circuits, labels>>
    /\ UNCHANGED <<program, shots, idx, processed_results, correlators, S, verdict,
                   result, submitted, measurement_counts, decVars, statVars, genVars, parity>>

\* a submission that is tried a second time when the first one fails
Submit_Retry ==
    /\ pc = "submit"
    /\ submitted' = submitted + 1
    /\ \/ pc' = "fetch" /\ UNCHANGED error
       \/ submitted = 0 /\ UNCHANGED <<pc, error>>
       \/ Fail("ServiceError")
    /\ UNCHANGED <<program, shots, idx, processed_results, correlators, S, verdict,
                   circuits, labels, result, measurement_counts, decVars, statVars, genVars, parity>>

\* job = sampler.run(transpiled, shots=shots)
Submit ==
    /\ pc = "submit"
    /\ submitted' = submitted + 1
    /\ \/ pc' = "fetch" /\ UNCHANGED error
       \/ Fail("ServiceError")
    /\ UNCHANGED <<program, shots, idx, processed_results, correlators, S, verdict,
                   circuits, labels, result, measurement_counts, decVars, statVars, genVars, parity>>

\* a fetch whose failure is recorded while the run goes on with empty results
Fetch_KeepGoing(handles) ==
    /\ pc = "fetch"
    /\ \/ /\ result' \in [1..Len(circuits) -> handles]
          /\ UNCHANGED error
       \/ /\ result' = [i \in 1..Len(circuits) |-> NoData]
          /\ error' = "ServiceError"
    /\ pc' = "decode"
    /\ idx' = 1
    /\ UNCHANGED <<program, shots, processed_results, correlators, S, verdict,
                   circuits, labels, submitted, measurement_counts, decVars, statVars, genVars, parity>>

\* result = job.result(): one handle per submitted circuit, or a failure
Fetch(handles) ==
    /\ pc = "fetch"
    /\ \/ /\ result' \in [1..Len(circuits) -> handles]
          /\ pc' = "decode"
          /\ idx' = 1
          /\ UNCHANGED error
       \/ /\ Fail("ServiceError")
          /\ UNCHANGED <<result, idx>>
    /\ UNCHANGED <<program, shots, processed_results, correlators, S, verdict,
                   circuits, labels, submitted, measurement_counts, decVars, statVars, genVars, parity>>

ChshFetch == program = "chsh-bell" /\ Fetch(ChshHandles)

\* one iteration of: for idx, label in enumerate(labels)
ChshDecode ==
    /\ program = "chsh-bell"
    /\ pc = "decode"
    /\ idx <= Len(labels)
    /\ LET r == extract_counts(result[idx], circuits[idx])
       IN  IF r.kind = "raise"
           THEN /\ Fail(r.exc)
                /\ UNCHANGED <<processed_results, idx>>
           ELSE /\ processed_results' =
                       Store(processed_results, labels[idx],
                             [counts |-> r.value,
                              total |-> RecordTotal(r.value, shots),
                              circuit |-> circuits[idx]])
                /\ idx' = idx + 1
                /\ UNCHANGED <<pc, error>>
    /\ UNCHANGED <<program, shots, correlators, S, verdict, circuits, labels, result,
                   submitted, measurement_counts, decVars, statVars, genVars, parity>>

\* run_experiment returns; main calls analyze_results(experiment)
ChshReturn ==
    /\ program = "chsh-bell"
    /\ pc = "decode"
    /\ idx > Len(labels)
    /\ pc' = "analyze"
    /\ idx' = 1
    /\ UNCHANGED <<program, shots, processed_results, correlators, S, verdict, error,
                   circuits, labels, result, submitted, measurement_counts, decVars, statVars, genVars, parity>>

\* an iteration of the correlator loop that empties the histogram it read
ChshCorrelate_Consuming ==
    /\ program = "chsh-bell"
    /\ pc = "analyze"
    /\ idx <= Len(chsh_settings)
    /\ LET setting == chsh_settings[idx]
           r == processed_results[setting]
           E == calculate_correlator(r.counts, r.total)
       IN  IF ~IsNum(E)
           THEN /\ Fail(E.exc)
                /\ UNCHANGED <<correlators, idx, processed_results>>
           ELSE /\ correlators' = Store(correlators, setting, E)
                /\ processed_results' =
                       [processed_results EXCEPT ![setting].counts = EmptyHist]
                /\ idx' = idx + 1
                /\ UNCHANGED <<pc, error>>
    /\ UNCHANGED <<program, shots, S, verdict, circuits, labels,
                   result, submitted, measurement_counts, decVars, statVars, genVars, parity>>

\* one iteration of the correlator loop of analyze_results
ChshCorrelate ==
    /\ program = "chsh-bell"
    /\ pc = "analyze"
    /\ idx <= Len(chsh_settings)
    /\ LET setting == chsh_settings[idx]
           r == processed_results[setting]
           E == calculate_correlator(r.counts, r.total)
       IN  IF ~IsNum(E)
           THEN /\ Fail(E.exc)
                /\ UNCHANGED <<correlators, idx>>
           ELSE /\ correlators' = Store(correlators, setting, E)
                /\ idx' = idx + 1
                /\ UNCHANGED <<pc, error>>
    /\ UNCHANGED <<program, shots, processed_results, S, verdict, circuits, labels,
                   result, submitted, measurement_counts, decVars, statVars, genVars, parity>>

ChshComputeS ==
    /\ program = "chsh-bell"
    /\ pc = "analyze"
    /\ idx > Len(chsh_settings)
    /\ S' = chsh_S(correlators)
    /\ pc' = "classify"
    /\ UNCHANGED <<program, shots, idx, processed_results, correlators, verdict, error,
                   circuits, labels, result, submitted, measurement_counts, decVars, statVars, genVars, parity>>

ChshClassify ==
    /\ program = "chsh-bell"
    /\ pc = "classify"
    /\ verdict' = chsh_verdict(S)
    /\ pc' = "done"
    /\ UNCHANGED <<program, shots, idx, processed_results, correlators, S, error,
                   circuits, labels, result, submitted, measurement_counts, decVars, statVars, genVars, parity>>

NextCHSH ==
    \/ ChshPrepare
    \/ Submit
    \/ ChshFetch
    \/ ChshDecode
    \/ ChshReturn
    \/ ChshCorrelate
    \/ ChshComputeS
    \/ ChshClassify

SpecCHSH == InitCHSH /\ [][NextCHSH]_vars

-----------------------------------------------------------------------------
(* Quantum Zeno effect: quantum-zeno-effect/main.py *)

\* largest measurement count N a run requests
MaxN == 2

\* longest list of measurement counts a run is given
MaxLen == 2

\* an angle is kept as the rational multiple of total_angle it is
\* create_unobserved_circuit(total_angle)
create_unobserved_circuit ==
    [name |-> <<"unobserved">>, cregs |-> <<"c">>,
     ops |-> <<[op |-> "ry", angle |-> RInt(1)], [op |-> "measure", clbit |-> 0]>>]

\* the body of the for loop of create_zeno_circuit, iterations i..n-1
RECURSIVE zeno_steps(_, _, _)
zeno_steps(i, n, angle_per_step) ==
    IF i >= n THEN <<>>
    ELSE <<[op |-> "ry", angle |-> angle_per_step],
           [op |-> "measure", clbit |-> 0],
           [op |-> "reset"]>>
         \o (IF i < n - 1 THEN <<[op |-> "barrier"]>> ELSE <<>>)
         \o zeno_steps(i + 1, n, angle_per_step)

\* create_zeno_circuit(num_measurements, total_angle): the circuit, or the
\* ZeroDivisionError of total_angle / num_measurements
create_zeno_circuit(n) ==
    LET angle_per_step == Div(1, n)
    IN  IF ~IsNum(angle_per_step)
        THEN [kind |-> "raise", exc |-> angle_per_step.exc]
        ELSE [kind |-> "circuit",
              name |-> <<"zeno", n>>, cregs |-> <<"c">>,
              ops |-> zeno_steps(0, n, angle_per_step)
                      \o <<[op |-> "ry", angle |-> angle_per_step],
                           [op |-> "measure", clbit |-> 0]>>]

\* the unobserved formula at every num_measurements
theoretical_zeno_probability_Unobserved(n) ==
    [kind |-> "num", half_angle |-> Rat(1, 2), power |-> 1]

\* theoretical_zeno_probability(num_measurements, total_angle): the value
\* (cos(half_angle * total_angle) ** 2) ** power, kept as its two parameters
theoretical_zeno_probability(n) ==
    IF n = 0
    THEN [kind |-> "num", half_angle |-> Rat(1, 2), power |-> 1]
    ELSE [kind |-> "num", half_angle |-> Norm(1, 2 * n), power |-> n]

\* the circuits and circuit_labels lists after the loop over
\* measurement_counts[i..]
RECURSIVE zeno_family(_, _, _)
zeno_family(ns, i, acc) ==
    IF i > Len(ns) \/ acc.kind = "raise" THEN acc
    ELSE LET qc == create_zeno_circuit(ns[i])
         IN  IF qc.kind = "raise"
             THEN [acc EXCEPT !.kind = "raise", !.exc = qc.exc]
             ELSE zeno_family(ns, i + 1,
                    [acc EXCEPT !.circuits = Append(@, qc),
                                !.labels = Append(@, <<"zeno", ns[i]>>)])

\* key = f"{label}_{n_meas}" if label == "zeno" else "unobserved"
zeno_key(label) == IF label[1] = "zeno" THEN label ELSE <<"unobserved">>

\* the final-bit marginal in percent
zeno_marginal_Percent(cnts, tot) ==
    LET m == final_bit_marginal(cnts, tot)
    IN  IF m.kind = "raise" THEN m
        ELSE [m EXCEPT !.prob_0 = Norm(100 * m.prob_0.n, m.prob_0.d),
                       !.prob_1 = Norm(100 * m.prob_1.n, m.prob_1.d)]

\* prob_0, prob_1 of one circuit: lines 262-269 of run_zeno_experiment
zeno_marginal(cnts, tot) == final_bit_marginal(cnts, tot)

\* a margin of 0.1
zeno_margin_Tenth == Rat(1, 10)

\* the margin of the Zeno verdict: unobs_p0 + 0.05
zeno_margin == Rat(1, 20)

\* the prob_0 of the Zeno entry with the most measurements
zeno_max_p0_MostMeasured(results) ==
    LET zs == {k \in DOMAIN results : results[k].type = "zeno"}
        best == CHOOSE k \in zs :
                    \A j \in zs : results[j].num_measurements
                                      <= results[k].num_measurements
    IN  results[best].prob_0

\* the largest prob_0 among the entries of type "zeno"
zeno_max_p0(results) ==
    LET zs == {k \in DOMAIN results : results[k].type = "zeno"}
        best == CHOOSE k \in zs :
                    \A j \in zs : RLe(results[j].prob_0, results[k].prob_0)
    IN  results[best].prob_0

\* the verdict branch of analyze_results ("" when nothing is printed)
zeno_verdict(results) ==
    LET zs == {k \in DOMAIN results : results[k].type = "zeno"}
    IN  IF <<"unobserved">> \notin DOMAIN results \/ zs = {} THEN ""
        ELSE LET unobs_p0 == results[<<"unobserved">>].prob_0
                 max_p0 == zeno_max_p0(results)
             IN  IF RGt(max_p0, RAdd(unobs_p0, zeno_margin)) THEN "observed"
                 ELSE IF RGt(max_p0, unobs_p0) THEN "weak"
                 ELSE "not_observed"

\* the histograms the backend returns in this model
Z_keep  == (<<0>> :> 3)
Z_mixed == (<<0>> :> 1) @@ (<<1>> :> 2)
Z_zero  == (<<0>> :> 0) @@ (<<1>> :> 0)
Z_multi == (<<1, 0>> :> 1) @@ (<<0, 1>> :> 1) @@ (<<1, 1>> :> 2)
Z_tenth == (<<0>> :> 3) @@ (<<1>> :> 7)

ZenoHandles ==
    {HandleWith(Z_keep), HandleWith(Z_mixed), HandleWith(Z_zero),
     HandleWith(Z_multi), HandleWith(Z_tenth), NoData, BrokenHandle}

MeasurementLists == UNION { [1..k -> 0..MaxN] : k \in 0..MaxLen }

InitZeno ==
    /\ program = "quantum-zeno-effect"
    /\ pc = "start"
    /\ shots \in ShotChoices
    /\ measurement_counts \in MeasurementLists
    /\ idx = 0
    /\ processed_results = <<>>
    /\ correlators = <<>>
    /\ parity = <<>>
    /\ S = RInt(0)
    /\ verdict = ""
    /\ error = ""
    /\ circuits = <<>>
    /\ labels = <<>>
    /\ result = <<>>
    /\ submitted = 0
    /\ DecOff /\ StatOff /\ GenOff

\* run_zeno_experiment up to transpile: connect, pick the backend, build the
\* unobserved circuit and one Zeno circuit per requested count
ZenoPrepare ==
    /\ program = "quantum-zeno-effect"
    /\ pc = "start"
    /\ LET fam == zeno_family(measurement_counts, 1,
                     [kind |-> "ok", exc |-> "",
                      circuits |-> <<create_unobserved_circuit>>,
                      labels |-> << <<"unobserved", 0>> >>])
       IN  \/ /\ fam.kind = "ok"
              /\ circuits' = fam.circuits
              /\ labels' = fam.labels
              /\ pc' = "submit"
              /\ UNCHANGED error
           \/ /\ fam.kind = "raise"
              /\ Fail(fam.exc)
              /\ UNCHANGED <<circuits, labels>>
           \/ /\ Fail("ServiceError")
              /\ UNCHANGED <<circuits, labels>>
    /\ UNCHANGED <<program, shots, idx, processed_results, correlators, S, verdict,
                   result, submitted, measurement_counts, decVars, statVars, genVars, parity>>

ZenoFetch == program = "quantum-zeno-effect" /\ Fetch(ZenoHandles)

\* one iteration of: for idx, (label, n_meas) in enumerate(circuit_labels)
ZenoProcess ==
    /\ program = "quantum-zeno-effect"
    /\ pc = "decode"
    /\ idx <= Len(labels)
    /\ LET label == labels[idx][1]
           n_meas == labels[idx][2]
           r == extract_counts(result[idx], circuits[idx])
           total_counts == RecordTotal(r.value, shots)
           m == zeno_marginal(r.value, total_counts)
       IN  IF r.kind = "raise"
           THEN /\ Fail(r.exc)
                /\ UNCHANGED <<processed_results, idx>>
           ELSE IF m.kind = "raise"
           THEN /\ Fail("ZeroDivisionError")
                /\ UNCHANGED <<processed_results, idx>>
           ELSE /\ processed_results' =
                       Store(processed_results, zeno_key(labels[idx]),
                             [type |-> label,
                              num_measurements |-> n_meas,
                              counts |-> r.value,
                              prob_0 |-> m.prob_0,
                              prob_1 |-> m.prob_1,
                              theoretical_p0 |-> theoretical_zeno_probability(n_meas),
                              shots |-> total_counts])
                /\ idx' = idx + 1
                /\ UNCHANGED <<pc, error>>
    /\ UNCHANGED <<program, shots, correlators, S, verdict, circuits, labels, result,
                   submitted, measurement_counts, decVars, statVars, genVars, parity>>

\* a return that leaves the processing loop after its second iteration
ZenoReturn_Early ==
    /\ program = "quantum-zeno-effect"
    /\ pc = "decode"
    /\ idx > 2
    /\ pc' = "analyze"
    /\ UNCHANGED <<program, shots, idx, processed_results, correlators, S, verdict, error,
                   circuits, labels, result, submitted, measurement_counts,
                   decVars, statVars, genVars, parity>>

\* run_zeno_experiment returns; main calls analyze_results(experiment)
ZenoReturn ==
    /\ program = "quantum-zeno-effect"
    /\ pc = "decode"
    /\ idx > Len(labels)
    /\ pc' = "analyze"
    /\ UNCHANGED <<program, shots, idx, processed_results, correlators, S, verdict, error,
                   circuits, labels, result, submitted, measurement_counts,
                   decVars, statVars, genVars, parity>>

\* analyze_results: the table and the verdict
ZenoAnalyze ==
    /\ program = "quantum-zeno-effect"
    /\ pc = "analyze"
    /\ verdict' = zeno_verdict(processed_results)
    /\ pc' = "done"
    /\ UNCHANGED <<program, shots, idx, processed_results, correlators, S, error,
                   circuits, labels, result, submitted, measurement_counts,
                   decVars, statVars, genVars, parity>>

NextZeno ==
    \/ ZenoPrepare
    \/ Submit
    \/ ZenoFetch
    \/ ZenoProcess
    \/ ZenoReturn
    \/ ZenoAnalyze

SpecZeno == InitZeno /\ [][NextZeno]_vars

-----------------------------------------------------------------------------
(* GHZ paradox: ghz-paradox/main.py *)

\* create_ghz_<basis>_measurement(): the GHZ state, then each qubit turned
\* to its axis (X: h; Y: sdg, h; Z: nothing) and measured into register "c"
create_ghz_measurement(basis, axes) ==
    [name |-> <<"GHZ", basis>>, cregs |-> <<"c">>,
     ops |-> <<[op |-> "h", qubit |-> 0], [op |-> "cx", qubits |-> <<0, 1>>],
               [op |-> "cx", qubits |-> <<1, 2>>]>>,
     axes |-> axes]

\* circuits = [zzz, xxx, xyy, yxy, yyx]
create_all_ghz_circuits ==
    <<create_ghz_measurement("ZZZ", <<"Z", "Z", "Z">>),
      create_ghz_measurement("XXX", <<"X", "X", "X">>),
      create_ghz_measurement("XYY", <<"X", "Y", "Y">>),
      create_ghz_measurement("YXY", <<"Y", "X", "Y">>),
      create_ghz_measurement("YYX", <<"Y", "Y", "X">>)>>

ghz_labels == <<"ZZZ", "XXX", "XYY", "YXY", "YYX">>

\* for basis in ["XYY", "YXY", "YYX", "XXX"]
ghz_bases == {"XYY", "YXY", "YYX", "XXX"}

\* the verdict that also counts an odd fraction of exactly 0.5
ghz_verdict_AtHalf(xxx_odd) ==
    IF ~RGt(Rat(1, 2), xxx_odd) THEN "demonstrated" ELSE "degraded"

\* if xxx_odd > 0.5: "GHZ PARADOX DEMONSTRATED" else "Signal degraded"
ghz_verdict(xxx_odd) ==
    IF RGt(xxx_odd, Rat(1, 2)) THEN "demonstrated" ELSE "degraded"

\* the histograms the backend returns in this model
G_even == (<<0, 0, 0>> :> 100)
G_odd  == (<<0, 0, 1>> :> 3) @@ (<<1, 1, 1>> :> 1)
G_half == (<<0, 0, 0>> :> 1) @@ (<<1, 1, 1>> :> 1)
G_zero == (<<0, 0, 0>> :> 0)

GhzHandles ==
    {HandleWith(G_even), HandleWith(G_odd), HandleWith(G_half),
     HandleWith(G_zero), NoData, BrokenHandle}

InitGHZ ==
    /\ program = "ghz-paradox"
    /\ pc = "start"
    /\ shots \in ShotChoices
    /\ idx = 0
    /\ processed_results = <<>>
    /\ correlators = <<>>
    /\ parity = <<>>
    /\ S = RInt(0)
    /\ verdict = ""
    /\ error = ""
    /\ circuits = <<>>
    /\ labels = <<>>
    /\ result = <<>>
    /\ submitted = 0
    /\ measurement_counts = <<>>
    /\ DecOff /\ StatOff /\ GenOff

\* run_experiment up to transpile: connect, pick the backend, build the
\* circuit list; the service may fail
GhzPrepare ==
    /\ program = "ghz-paradox"
    /\ pc = "start"
    /\ \/ /\ circuits' = create_all_ghz_circuits
          /\ labels' = ghz_labels
          /\ pc' = "submit"
          /\ UNCHANGED error
       \/ /\ Fail("ServiceError")
          /\ UNCHANGED <<circuits, labels>>
    /\ UNCHANGED <<program, shots, idx, processed_results, correlators, S, verdict,
                   result, submitted, measurement_counts, parity,
                   decVars, statVars, genVars>>

GhzFetch == program = "ghz-paradox" /\ Fetch(GhzHandles)

\* one iteration of: for idx, label in enumerate(labels)
GhzDecode ==
    /\ program = "ghz-paradox"
    /\ pc = "decode"
    /\ idx <= Len(labels)
    /\ LET r == extract_counts(result[idx], circuits[idx])
       IN  IF r.kind = "raise"
           THEN /\ Fail(r.exc)
                /\ UNCHANGED <<processed_results, idx>>
           ELSE /\ processed_results' =
                       Store(processed_results, labels[idx],
                             [counts |-> r.value,
                              total |-> RecordTotal(r.value, shots),
                              circuit |-> circuits[idx]])
                /\ idx' = idx + 1
                /\ UNCHANGED <<pc, error>>
    /\ UNCHANGED <<program, shots, correlators, S, verdict, circuits, labels, result,
                   submitted, measurement_counts, parity,
                   decVars, statVars, genVars>>

\* run_experiment returns; main calls analyze_results(experiment)
GhzReturn ==
    /\ program = "ghz-paradox"
    /\ pc = "decode"
    /\ idx > Len(labels)
    /\ pc' = "analyze"
    /\ UNCHANGED <<program, shots, idx, processed_results, correlators, S, verdict, error,
                   circuits, labels, result, submitted, measurement_counts, parity,
                   decVars, statVars, genVars>>

\* an analysis whose verdict also asks the three even-parity bases to agree
GhzAnalyze_AllBases ==
    /\ program = "ghz-paradox"
    /\ pc = "analyze"
    /\ LET zzz == processed_results["ZZZ"]
           ghz_fidelity ==
               Div(Get(zzz.counts, <<0, 0, 0>>) + Get(zzz.counts, <<1, 1, 1>>),
                   zzz.total)
           fractions ==
               [b \in ghz_bases |->
                   parity_fractions(processed_results[b].counts,
                                    processed_results[b].total)]
       IN  IF ~IsNum(ghz_fidelity) \/ \E b \in ghz_bases : fractions[b].kind = "raise"
           THEN /\ Fail("ZeroDivisionError")
                /\ UNCHANGED <<parity, verdict>>
           ELSE /\ parity' = fractions
                /\ verdict' =
                       IF \A b \in ghz_bases \ {"XXX"} :
                              RGt(fractions[b].even, Rat(1, 2))
                       THEN ghz_verdict(fractions["XXX"].odd)
                       ELSE "degraded"
                /\ pc' = "done"
                /\ UNCHANGED error
    /\ UNCHANGED <<program, shots, idx, processed_results, correlators, S,
                   circuits, labels, result, submitted, measurement_counts,
                   decVars, statVars, genVars>>

\* analyze_results: the ZZZ table and fidelity, the parity of the four
\* bases, the four verification fractions and the verdict; every division
\* by a stored total of 0 ends it with ZeroDivisionError
GhzAnalyze ==
    /\ program = "ghz-paradox"
    /\ pc = "analyze"
    /\ LET zzz == processed_results["ZZZ"]
           ghz_fidelity ==
               Div(Get(zzz.counts, <<0, 0, 0>>) + Get(zzz.counts, <<1, 1, 1>>),
                   zzz.total)
           fractions ==
               [b \in ghz_bases |->
                   parity_fractions(processed_results[b].counts,
                                    processed_results[b].total)]
       IN  IF ~IsNum(ghz_fidelity) \/ \E b \in ghz_bases : fractions[b].kind = "raise"
           THEN /\ Fail("ZeroDivisionError")
                /\ UNCHANGED <<parity, verdict>>
           ELSE /\ parity' = fractions
                /\ verdict' = ghz_verdict(fractions["XXX"].odd)
                /\ pc' = "done"
                /\ UNCHANGED error
    /\ UNCHANGED <<program, shots, idx, processed_results, correlators, S,
                   circuits, labels, result, submitted, measurement_counts,
                   decVars, statVars, genVars>>

NextGHZ ==
    \/ GhzPrepare
    \/ Submit
    \/ GhzFetch
    \/ GhzDecode
    \/ GhzReturn
    \/ GhzAnalyze

SpecGHZ == InitGHZ /\ [][NextGHZ]_vars

-----------------------------------------------------------------------------
(* The Zeno generator and predictor called on their own arguments *)

\* largest |num_measurements| given to a generator
MaxSteps == 4

\* the total_angle arguments, as multiples of pi (np.pi is the default)
ThetaChoices == {Rat(1, 1), Rat(1, 2), Rat(2, 3), Rat(1, 3)}

\* x * y on floats
RMul(x, y) == Norm(x.n * y.n, x.d * y.d)

\* np.cos(x * pi) ** 2 in real arithmetic: the rational values of cos^2 at
\* rational multiples of pi; every other angle stays unevaluated
Cos2(x) ==
    LET f == Norm(Abs(x.n) % x.d, x.d)
    IN  IF f = Rat(0, 1) THEN Rat(1, 1)
        ELSE IF f \in {Rat(1, 6), Rat(5, 6)} THEN Rat(3, 4)
        ELSE IF f \in {Rat(1, 4), Rat(3, 4)} THEN Rat(1, 2)
        ELSE IF f \in {Rat(1, 3), Rat(2, 3)} THEN Rat(1, 4)
        ELSE IF f = Rat(1, 2) THEN Rat(0, 1)
        ELSE [kind |-> "irrational", n |-> 0, d |-> 1]

\* base ** e for a float base and an int exponent; a zero base with a
\* negative exponent is numpy's inf (a warning, no exception)
RECURSIVE RPow(_, _)
RPow(base, e) ==
    IF ~IsNum(base) THEN base
    ELSE IF e = 0 THEN Rat(1, 1)
    ELSE IF e > 0 THEN RMul(base, RPow(base, e - 1))
    ELSE IF base.n = 0 THEN [kind |-> "inf", n |-> 1, d |-> 0]
    ELSE RPow(Norm(base.d, base.n), -e)

\* the float returned by theoretical_zeno_probability(n, theta * pi)
theoretical_value(n, theta) ==
    LET t == theoretical_zeno_probability(n)
    IN  RPow(Cos2(RMul(t.half_angle, theta)), t.power)

\* create_survival_zeno_circuit(num_measurements, total_angle): the
\* register of num_measurements + 1 bits must not have a negative size
RECURSIVE survival_steps(_, _, _)
survival_steps(i, n, angle_per_step) ==
    IF i >= n THEN <<>>
    ELSE <<[op |-> "ry", angle |-> angle_per_step],
           [op |-> "measure", clbit |-> i],
           [op |-> "barrier"]>>
         \o survival_steps(i + 1, n, angle_per_step)

create_survival_zeno_circuit(n) ==
    LET angle_per_step == Div(1, n + 1)
    IN  IF n + 1 < 0
        THEN [kind |-> "raise", exc |-> "CircuitError"]
        ELSE IF ~IsNum(angle_per_step)
        THEN [kind |-> "raise", exc |-> angle_per_step.exc]
        ELSE [kind |-> "circuit",
              name |-> <<"survival", n>>, clbits |-> n + 1,
              ops |-> survival_steps(0, n, angle_per_step)
                      \o <<[op |-> "ry", angle |-> angle_per_step],
                           [op |-> "measure", clbit |-> n]>>]

InitGen ==
    /\ num_measurements \in -MaxSteps..MaxSteps
    /\ total_angle \in ThetaChoices
    /\ generator = "none"
    /\ generated = RInt(0)
    /\ DecOff /\ StatOff /\ RunOff

Generate(name, v) ==
    /\ generator = "none"
    /\ generator' = name
    /\ generated' = v
    /\ UNCHANGED <<num_measurements, total_angle, decVars, statVars, runVars>>

GenTheoretical ==
    Generate("theoretical_zeno_probability",
             [theoretical_zeno_probability(num_measurements) EXCEPT
                 !.kind = "returned"]
             @@ [value |-> theoretical_value(num_measurements, total_angle)])

GenZenoCircuit ==
    Generate("create_zeno_circuit", create_zeno_circuit(num_measurements))

GenUnobservedCircuit ==
    Generate("create_unobserved_circuit",
             [kind |-> "circuit"] @@ create_unobserved_circuit)

GenSurvivalCircuit ==
    Generate("create_survival_zeno_circuit",
             create_survival_zeno_circuit(num_measurements))

\* run_survival_experiment for one measurement count: the circuit it builds
\* and the theoretical_survival it stores under survival_N
survival_run(n) ==
    LET qc == create_survival_zeno_circuit(n)
    IN  IF qc.kind = "raise" THEN qc
        ELSE [kind |-> "stored", num_measurements |-> n, circuit |-> qc,
              theoretical_survival |-> theoretical_zeno_probability(n)]

GenSurvivalRun ==
    Generate("run_survival_experiment", survival_run(num_measurements))

NextGen ==
    \/ GenTheoretical
    \/ GenZenoCircuit
    \/ GenUnobservedCircuit
    \/ GenSurvivalCircuit
    \/ GenSurvivalRun

SpecGen == InitGen /\ [][NextGen]_vars

-----------------------------------------------------------------------------
(* The whole model *)

Init == InitDecode \/ InitStats \/ InitCHSH \/ InitZeno \/ InitGHZ \/ InitGen

Next == NextDecode \/ NextStats \/ NextCHSH \/ NextZeno \/ NextGHZ \/ NextGen

Spec == Init /\ [][Next]_vars

\* the three experiment runs
InitRuns == InitCHSH \/ InitGHZ \/ InitZeno

NextRuns == NextCHSH \/ NextGHZ \/ NextZeno

SpecRuns == InitRuns /\ [][NextRuns]_vars

-----------------------------------------------------------------------------
(* Claims about the decoder, under SpecDecode *)

Decoded == outcome.kind # "idle"

PublicNames == {n \in Names : ~IsPrivate(n)}

\* C1: extract_counts never raises to its caller: whatever the fields of the
\* handle are and whatever their accessors do, the call returns a histogram
\* (possibly the empty one).
C1_NeverRaises == Decoded => outcome.kind = "return"

\* the handle's only public field with a get_counts accessor is x, which is
\* neither the primary label of the circuit nor a conventional label, and
\* whose accessor returns a histogram
OnlyGenericField(x) ==
    /\ pub_result.hasData
    /\ x \in PublicNames
    /\ x # creg_name(circuit)
    /\ x \notin {"meas", "c", "c0"}
    /\ pub_result.data[x].kind = "counts"
    /\ \A n \in PublicNames \ {x} : ~HasAccessor(pub_result.data[n])

\* C2: when the only usable field of the handle is a public one that is
\* neither the primary register label nor "meas", "c", "c0", extract_counts
\* returns that field's histogram.
C2_GenericFieldRecovered ==
    \A x \in Names :
        (Decoded /\ OnlyGenericField(x)) =>
            outcome = Return(pub_result.data[x].counts)

\* C2 happens: the primary field exists without an accessor (step 1 and step 2
\* both end in a swallowed AttributeError) and the scan finds field "b"
C2_Witness ==
    /\ Decoded
    /\ OnlyGenericField("b")
    /\ creg_name(circuit) = "c"
    /\ pub_result.data["c"].kind = "noacc"
    /\ outcome = Return(FieldHist("b"))

\* no public field of the handle has a get_counts accessor
NothingUsable ==
    \/ ~pub_result.hasData
    \/ \A n \in PublicNames : ~HasAccessor(pub_result.data[n])

\* C3: when no field of the handle exposes a histogram accessor,
\* extract_counts returns the empty mapping.
C3_EmptyWhenNothingUsable ==
    (Decoded /\ NothingUsable) => outcome = Return(EmptyHist)

\* C3 happens: fields exist, none has an accessor, the primary one is an
\* object without get_counts, and {} was returned
C3_Witness ==
    /\ Decoded
    /\ NothingUsable
    /\ pub_result.hasData
    /\ pub_result.data[creg_name(circuit)].kind = "noacc"
    /\ pub_result.data["meas"].kind = "noacc"
    /\ outcome = Return(EmptyHist)

-----------------------------------------------------------------------------
(* Claims about the derivations, under SpecStats *)

\* the derivation that was applied raised
StatRaised ==
    CASE stat = "survival" -> value.p.kind = "raise"
      [] OTHER             -> value.kind = "raise"

\* C4: every derivation (correlator, parity fractions, pair-sharing fractions,
\* survival probability, final-bit marginal) given a total of 0 returns
\* without raising.
C4_GracefulAtZeroTotal ==
    (stat \notin {"none", "off"} /\ total = 0) => ~StatRaised

TwoBit(h) == DOMAIN h \subseteq Bits(2)

\* C7: calculate_correlator returns (count(00) + count(11) - count(01) -
\* count(10)) / total, and on a two-bit histogram whose total is the positive
\* sum of its counts the value lies in [-1, 1].
C7_CorrelatorValueAndRange ==
    (stat = "correlator" /\ total # 0) =>
        /\ IsNum(value)
        /\ value.d > 0
        /\ value.n * total =
             (Get(counts, K00) + Get(counts, K11)
                - Get(counts, K01) - Get(counts, K10)) * value.d
        /\ (TwoBit(counts) /\ total = SumValues(counts)) =>
               (-value.d <= value.n /\ value.n <= value.d)

\* C7 happens: all four outcomes are present and E = -1/3
C7_Witness ==
    /\ stat = "correlator"
    /\ DOMAIN counts = Bits(2)
    /\ total = SumValues(counts)
    /\ value = Rat(-1, 3)

\* the histogram with the counts of "00" and "11" exchanged and the counts of
\* "01" and "10" exchanged
SwapKey(k) == [i \in 1..2 |-> 1 - k[i]]
Swapped(h) == [k \in {SwapKey(j) : j \in DOMAIN h} |-> h[SwapKey(k)]]

\* C8: the correlator of a two-bit histogram equals the correlator of the
\* histogram with "00"/"11" exchanged and "01"/"10" exchanged, for every total.
C8_CorrelatorSymmetry ==
    (stat = "correlator" /\ TwoBit(counts)) =>
        value = calculate_correlator(Swapped(counts), total)

\* C8 happens: the exchange changes the histogram and E is not 0
C8_Witness ==
    /\ stat = "correlator"
    /\ TwoBit(counts)
    /\ Swapped(counts) # counts
    /\ IsNum(value)
    /\ value.n # 0

-----------------------------------------------------------------------------
(* Claims about the CHSH run, under SpecCHSH *)

\* C5: an empty decoded histogram is stored with the configured shot count as
\* its total and every count read from it is 0; a non-empty one is stored with
\* the sum of its counts as its total.
C5_TotalConvention ==
    \A l \in DOMAIN processed_results :
        LET r == processed_results[l]
        IN  /\ r.counts = EmptyHist =>
                 /\ r.total = shots
                 /\ \A k \in Bits(2) : Get(r.counts, k) = 0
            /\ r.counts # EmptyHist => r.total = SumValues(r.counts)

\* C5 happens: one run stored a decoding miss with the nominal 4096 shots and
\* a decoded histogram with its own 1000 shots
C5_Witness ==
    /\ pc = "analyze"
    /\ shots = DefaultShots
    /\ result[1] = NoData
    /\ processed_results["A0B0"].counts = EmptyHist
    /\ processed_results["A0B0"].total = DefaultShots
    /\ processed_results["A0B1"].counts = H_same
    /\ processed_results["A0B1"].total = 1000

\* same - diff of a stored histogram
AgreeMinusDisagree(h) ==
    Get(h, K00) + Get(h, K11) - Get(h, K01) - Get(h, K10)

\* the four histograms of the end-to-end scenario
ScenarioHistograms ==
    /\ processed_results["A0B0"].counts = H_same
    /\ processed_results["A0B1"].counts = H_same
    /\ processed_results["A1B0"].counts = H_same
    /\ processed_results["A1B1"].counts = H_diff

\* C9: S = E(A0B0) + E(A0B1) + E(A1B0) - E(A1B1), each correlator being
\* (same - diff) / total of its own setting's histogram and total; the
\* scenario histograms give correlators 1, 1, 1, -1 and S = 4.
C9_ChshValue ==
    pc \in {"classify", "done"} =>
        LET E(s) == correlators[s]
            e1 == E("A0B0")  e2 == E("A0B1")  e3 == E("A1B0")  e4 == E("A1B1")
        IN  /\ \A s \in {"A0B0", "A0B1", "A1B0", "A1B1"} :
                  /\ IsNum(E(s))
                  /\ E(s).n * processed_results[s].total =
                        AgreeMinusDisagree(processed_results[s].counts) * E(s).d
            /\ IsNum(S)
            /\ S.n * (e1.d * e2.d * e3.d * e4.d) =
                 S.d * (  e1.n * e2.d * e3.d * e4.d
                        + e2.n * e1.d * e3.d * e4.d
                        + e3.n * e1.d * e2.d * e4.d
                        - e4.n * e1.d * e2.d * e3.d)
            /\ ScenarioHistograms =>
                 /\ e1 = RInt(1) /\ e2 = RInt(1) /\ e3 = RInt(1) /\ e4 = RInt(-1)
                 /\ S = RInt(4)

\* C9 happens: the scenario ran to its verdict with S = 4
C9_Witness ==
    /\ pc = "done"
    /\ ScenarioHistograms
    /\ \A s \in {"A0B0", "A0B1", "A1B0", "A1B1"} : processed_results[s].total = 1000
    /\ S = RInt(4)
    /\ verdict = "violated"

\* the margin the specification gives as an example of a configured margin
ExampleMargin == Rat(1, 20)

\* C10 as stated: the verdict is violation-confirmed iff |S| exceeds the
\* classical bound 2 by more than the configured margin.
C10_ViolationBeyondMargin ==
    pc = "done" =>
        (verdict = "violated" <=>
            RGt(RAbs(S), RAdd(classical_bound, ExampleMargin)))

\* C10 as amended: the verdict is violation-confirmed iff |S| > 2, with no
\* margin, and no-violation otherwise, in particular when |S| = 2.
C10_ViolationAboveBound ==
    pc = "done" =>
        /\ verdict \in {"violated", "no_violation"}
        /\ verdict = "violated" <=> Abs(S.n) > 2 * S.d

\* C10 happens: a run ended with |S| exactly 2 and no violation reported
C10_Witness ==
    /\ pc = "done"
    /\ Abs(S.n) = 2 * S.d
    /\ verdict = "no_violation"

-----------------------------------------------------------------------------
(* Claims about the Zeno run, under SpecZeno *)

\* a float that lies in [0, 1]
InUnit(x) == IsNum(x) /\ 0 <= x.n /\ x.n <= x.d

\* C6 as stated: the total stored with every histogram of a run is the sum of
\* the histogram's counts, and the probabilities computed from it are in [0,1].
C6_TotalIsSum ==
    \A k \in DOMAIN processed_results :
        LET r == processed_results[k]
        IN  /\ r.shots = SumValues(r.counts)
            /\ InUnit(r.prob_0) /\ InUnit(r.prob_1)

\* C6 as amended: the total stored with a non-empty histogram is the sum of
\* its counts, the total stored with an empty histogram is the configured shot
\* count, and the probabilities stored with it are in [0,1].
C6_TotalAndUnitRange ==
    \A k \in DOMAIN processed_results :
        LET r == processed_results[k]
        IN  /\ r.counts # EmptyHist => r.shots = SumValues(r.counts)
            /\ r.counts = EmptyHist => r.shots = shots
            /\ InUnit(r.prob_0) /\ InUnit(r.prob_1)

\* C6 happens: a run stored a decoding miss with the 4096 nominal shots and a
\* two-outcome histogram with total 3, P(0) = 1/3, P(1) = 2/3
C6_Witness ==
    /\ pc = "analyze"
    /\ shots = DefaultShots
    /\ <<"zeno", 1>> \in DOMAIN processed_results
    /\ processed_results[<<"unobserved">>].counts = EmptyHist
    /\ processed_results[<<"unobserved">>].shots = DefaultShots
    /\ processed_results[<<"zeno", 1>>].counts = Z_mixed
    /\ processed_results[<<"zeno", 1>>].shots = 3
    /\ processed_results[<<"zeno", 1>>].prob_0 = Rat(1, 3)
    /\ processed_results[<<"zeno", 1>>].prob_1 = Rat(2, 3)

\* the stored entries of type "zeno"
ZenoEntries == {k \in DOMAIN processed_results : processed_results[k].type = "zeno"}

\* C11: when the analysis of a Zeno run has finished, the verdict is
\* "Zeno effect observed" if and only if the run stored an unobserved entry
\* and some stored Zeno circuit whose measured P(0) minus the unobserved
\* P(0) is greater than 0.05.
C11_ZenoVerdictMargin ==
    (program = "quantum-zeno-effect" /\ pc = "done") =>
        (verdict = "observed" <=>
            /\ <<"unobserved">> \in DOMAIN processed_results
            /\ \E k \in ZenoEntries :
                   RGt(RSub(processed_results[k].prob_0,
                            processed_results[<<"unobserved">>].prob_0),
                       Rat(1, 20)))

\* a finished run whose best Zeno P(0) is 1/3 against an unobserved 1/4:
\* the excess 1/12 is above 0.05 and the verdict is "observed"
C11_Witness ==
    /\ program = "quantum-zeno-effect" /\ pc = "done"
    /\ verdict = "observed"
    /\ <<"unobserved">> \in DOMAIN processed_results
    /\ processed_results[<<"unobserved">>].prob_0 = Rat(1, 4)
    /\ ZenoEntries # {}
    /\ \A k \in ZenoEntries : RLe(processed_results[k].prob_0, Rat(1, 3))

\* the requested measurement counts contain N
Requested(n) == \E i \in 1..Len(measurement_counts) : measurement_counts[i] = n

\* C12: a Zeno run whose requested measurement counts contain 0 builds its
\* circuit family without a division by zero: it never ends, before
\* anything was submitted, in a ZeroDivisionError.
C12_ZeroCountBuilds ==
    (program = "quantum-zeno-effect" /\ Requested(0)) =>
        ~(pc = "error" /\ error = "ZeroDivisionError" /\ submitted = 0)

-----------------------------------------------------------------------------
(* Claims about the Zeno generator and predictor, under SpecGen *)

\* C13: theoretical_zeno_probability and create_zeno_circuit called with a
\* negative num_measurements signal an error instead of returning.
C13_NegativeCountRejected ==
    (generator \in {"theoretical_zeno_probability", "create_zeno_circuit"}
        /\ num_measurements < 0) =>
        generated.kind = "raise"

\* (cos^2(x * pi)) ** e by repeated multiplication, e >= 1
RECURSIVE StagedProduct(_, _)
StagedProduct(x, e) ==
    IF e = 1 THEN Cos2(x)
    ELSE LET c == Cos2(x) r == StagedProduct(x, e - 1)
         IN  IF IsNum(c) THEN Norm(c.n * r.n, c.d * r.d) ELSE c

-----------------------------------------------------------------------------
(* Further claims about the derivations, under SpecStats *)

\* the positions of a key that hold "1"
OnePositions(k) == {i \in 1..Len(k) : k[i] = 1}

\* C15: the parity statistic splits the histogram's weight in two: the
\* even count is the weight of the keys with an even number of "1", the odd
\* count the weight of the keys with an odd number of "1", no key is in both
\* classes and the two counts add up to the sum of all counts.
C15_ParityPartition ==
    (stat = "parity" /\ value.kind = "num") =>
        LET EvenKeys == {k \in DOMAIN counts : Cardinality(OnePositions(k)) % 2 = 0}
            OddKeys  == DOMAIN counts \ EvenKeys
        IN  /\ value.even_count = SumOver(counts, EvenKeys)
            /\ value.odd_count = SumOver(counts, OddKeys)
            /\ value.even_count + value.odd_count = SumValues(counts)

\* the parity statistic of a histogram with weight on a key with two "1"
\* and on a key with one "1"
C15_Witness ==
    /\ stat = "parity" /\ value.kind = "num"
    /\ \E k \in DOMAIN counts : Cardinality(OnePositions(k)) = 2 /\ counts[k] > 0
    /\ \E k \in DOMAIN counts : Cardinality(OnePositions(k)) = 1 /\ counts[k] > 0

\* C17: for every histogram of three-bit outcomes whose total is the
\* positive sum of its counts, the "any" sharing fraction is exactly 1 and
\* each of the three pair fractions is at most the "any" fraction.
C17_SomePairAlwaysShares ==
    (/\ stat = "sharing"
     /\ \A k \in DOMAIN counts : Len(k) = 3
     /\ total = SumValues(counts) /\ total > 0) =>
        /\ value.kind = "num"
        /\ value.any = Rat(1, 1)
        /\ RLe(value.pair_01, value.any)
        /\ RLe(value.pair_12, value.any)
        /\ RLe(value.pair_02, value.any)

\* the sharing fractions of the uniform histogram over all eight outcomes:
\* every pair shares in half of the weight
C17_Witness ==
    /\ stat = "sharing"
    /\ counts = H_uniform8 /\ total = 8
    /\ value.pair_01 = Rat(1, 2) /\ value.pair_12 = Rat(1, 2)
    /\ value.pair_02 = Rat(1, 2)

\* C18: the survival probability of a circuit with N checkpoints is the
\* count of the key of N + 1 zeros divided by the total; it is 0 when that
\* key is absent or the total is 0, and it lies in [0, 1] when the total is
\* the one a run records for the histogram.
C18_SurvivalProbability ==
    stat = "survival" =>
        LET N == value.n_meas
            key == [i \in 1..(N + 1) |-> 0]
            survival_count == IF key \in DOMAIN counts THEN counts[key] ELSE 0
        IN  /\ total > 0 => value.p = Norm(survival_count, total)
            /\ (key \notin DOMAIN counts \/ total = 0) => value.p = Rat(0, 1)
            /\ (Truthy(counts) => total = SumValues(counts)) => InUnit(value.p)

\* a two-checkpoint histogram with weight on "000" and on another outcome:
\* the survival probability is strictly between 0 and 1
C18_Witness ==
    /\ stat = "survival" /\ value.n_meas = 2
    /\ <<0, 0, 0>> \in DOMAIN counts /\ counts[<<0, 0, 0>>] > 0
    /\ total = SumValues(counts)
    /\ RGt(value.p, Rat(0, 1)) /\ RGt(Rat(1, 1), value.p)

-----------------------------------------------------------------------------
(* Claims about the GHZ run, under SpecGHZ *)

\* the weight of the keys of h with an odd number of "1"
OddWeight(h) ==
    SumOver(h, {k \in DOMAIN h : Cardinality(OnePositions(k)) % 2 = 1})

\* C16: when the GHZ analysis reaches its verdict and the XXX odd-parity
\* fraction (odd weight over the stored total) is at most 0.5, the verdict
\* is "signal degraded" and not "paradox demonstrated"; so it is for the
\* XXX histogram {000: 100}, whose odd fraction is 0.
C16_NoParadoxAtOrBelowHalf ==
    (program = "ghz-paradox" /\ pc = "done") =>
        LET xxx == processed_results["XXX"]
        IN  /\ 2 * OddWeight(xxx.counts) <= xxx.total =>
                   (verdict = "degraded" /\ verdict # "demonstrated")
            /\ xxx.counts = G_even =>
                   (parity["XXX"].odd = Rat(0, 1) /\ verdict = "degraded")

\* a finished analysis whose XXX histogram is {000: 100}
C16_Witness ==
    /\ program = "ghz-paradox" /\ pc = "done"
    /\ processed_results["XXX"].counts = G_even
    /\ processed_results["XXX"].total = 100
    /\ verdict = "degraded"

-----------------------------------------------------------------------------
(* Further claims about the CHSH run, under SpecCHSH *)

\* C19: when sampler.run or job.result() fails, the CHSH run ends in main's
\* handler with that one error: no histogram was stored, no correlator, S
\* or verdict was produced, and nothing happens after the error is reported.
C19_FailureStopsRun ==
    [][ /\ (program = "chsh-bell" /\ error # "") => UNCHANGED vars
        /\ (program = "chsh-bell" /\ error' = "ServiceError" /\ submitted' >= 1) =>
               /\ pc' = "error"
               /\ processed_results' = <<>>
               /\ correlators' = <<>>
               /\ S' = RInt(0)
               /\ verdict' = "" ]_vars

\* a run that was submitted and then failed at the service
C19_Witness ==
    /\ program = "chsh-bell" /\ pc = "error"
    /\ error = "ServiceError" /\ submitted = 1
    /\ circuits # <<>> /\ result = <<>>

-----------------------------------------------------------------------------
(* Claims about every experiment run, under SpecRuns *)

\* the label list each program is to walk
ExpectedLabels ==
    IF program = "chsh-bell" THEN <<"A0B0", "A0B1", "A1B0", "A1B1", "classical">>
    ELSE IF program = "ghz-paradox" THEN <<"ZZZ", "XXX", "XYY", "YXY", "YYX">>
    ELSE [i \in 1..(Len(measurement_counts) + 1) |->
             IF i = 1 THEN <<"unobserved", 0>>
             ELSE <<"zeno", measurement_counts[i - 1]>>]

\* the name of the circuit that belongs to a label
ExpectedName(label) ==
    IF program = "chsh-bell"
    THEN CASE label = "A0B0" -> <<"CHSH", 0, 0>>
           [] label = "A0B1" -> <<"CHSH", 0, 1>>
           [] label = "A1B0" -> <<"CHSH", 1, 0>>
           [] label = "A1B1" -> <<"CHSH", 1, 1>>
           [] label = "classical" -> <<"classical">>
    ELSE IF program = "ghz-paradox" THEN <<"GHZ", label>>
    ELSE IF label[1] = "unobserved" THEN <<"unobserved">>
    ELSE <<"zeno", label[2]>>

\* the key a label's entry is stored under
StoredKey(label) ==
    IF program = "quantum-zeno-effect"
    THEN (IF label[1] = "zeno" THEN label ELSE <<"unobserved">>)
    ELSE label

\* the indices the processing loop has been through
Processed ==
    IF pc = "decode" THEN 1..(idx - 1)
    ELSE IF pc \in {"analyze", "classify", "done"} THEN 1..Len(labels)
    ELSE {}

-----------------------------------------------------------------------------
(* Further claims about the decoder, under SpecDecode *)

\* the named lookups in their priority: the primary register's field, then
\* the conventional labels
PriorityOrder == <<creg_name(circuit)>> \o <<"meas", "c", "c0">>

\* the field's accessor returns a histogram
Available(name) == pub_result.data[name].kind = "counts"

\* C21: when no accessor of the handle fails with an exception other than
\* AttributeError and a histogram is available under the primary register's
\* name or under "meas", "c" or "c0", extract_counts returns the histogram of
\* the first of these fields that has one, whatever the generic scan would
\* find.
C21_FixedPriority ==
    (/\ Decoded /\ pub_result.hasData
     /\ \A n \in Names : pub_result.data[n].kind # "error"
     /\ \E i \in 1..Len(PriorityOrder) : Available(PriorityOrder[i])) =>
        LET first == CHOOSE i \in 1..Len(PriorityOrder) :
                        /\ Available(PriorityOrder[i])
                        /\ \A j \in 1..(i - 1) : ~Available(PriorityOrder[j])
        IN  outcome = Return(pub_result.data[PriorityOrder[first]].counts)

-----------------------------------------------------------------------------
(* Further claims about the Zeno generator, under SpecGen *)

\* the positions of the rotations in a generated circuit
Rotations == {i \in 1..Len(generated.ops) : generated.ops[i].op = "ry"}

\* C22: for N >= 1 the circuit of create_zeno_circuit(N, theta) holds
\* exactly N rotations, each of theta/N; every rotation but the last is
\* followed by a measurement and a reset, and the last one by a measurement
\* that ends the circuit, with no reset.
C22_ExactlyNSteps ==
    (generator = "create_zeno_circuit" /\ num_measurements >= 1) =>
        LET ops == generated.ops
            last == CHOOSE i \in Rotations : \A j \in Rotations : j <= i
        IN  /\ generated.kind = "circuit"
            /\ Cardinality(Rotations) = num_measurements
            /\ \A i \in Rotations : ops[i].angle = Norm(1, num_measurements)
            /\ \A i \in Rotations \ {last} :
                   ops[i + 1].op = "measure" /\ ops[i + 2].op = "reset"
            /\ Len(ops) = last + 1 /\ ops[last + 1].op = "measure"

-----------------------------------------------------------------------------
(* Claims about the final-bit marginal, under SpecStats *)

\* C23: over histograms of (non-empty) bitstring keys, P(0) is the weight of
\* the keys whose last character is "0" over the total and P(1) the weight
\* of all other keys over the total, each key counted once; when the total
\* is the positive sum of the counts the two weights add up to the total
\* (P(0) + P(1) = 1).
C23_FinalBitMarginal ==
    (stat = "marginal" /\ value.kind = "num") =>
        LET Zero == {k \in DOMAIN counts : k[Len(k)] = 0}
            Other == DOMAIN counts \ Zero
        IN  /\ total # 0 =>
                   /\ value.prob_0 = Norm(SumOver(counts, Zero), total)
                   /\ value.prob_1 = Norm(SumOver(counts, Other), total)
            /\ SumOver(counts, Zero) + SumOver(counts, Other) = SumValues(counts)
            /\ (Truthy(counts) /\ total = SumValues(counts) /\ total > 0) =>
                   RAdd(value.prob_0, value.prob_1) = Rat(1, 1)

\* the marginal of a histogram with weight on "10" and on "01"
C23_Witness ==
    /\ stat = "marginal" /\ value.kind = "num"
    /\ DOMAIN counts = {<<1, 0>>, <<0, 1>>}
    /\ counts[<<1, 0>>] = 2 /\ counts[<<0, 1>>] = 1
    /\ total = 3
    /\ value.prob_0 = Rat(2, 3) /\ value.prob_1 = Rat(1, 3)

-----------------------------------------------------------------------------
(* Further claims about the Zeno run, under SpecZeno *)

\* C24: in a Zeno run every step that stores an entry stores the histogram
\* decoded from the current result handle together with the statistics of
\* that very histogram and the prediction for its measurement count, and
\* does so before any verdict; the step that emits the verdict comes after
\* the processing loop has gone through every label, finds an entry for
\* every label and changes no entry.
C24_StagesInOrder ==
    [][ program = "quantum-zeno-effect" =>
        /\ processed_results' # processed_results =>
               LET e == processed_results'[zeno_key(labels[idx])]
                   m == final_bit_marginal(e.counts, e.shots)
               IN  /\ pc = "decode" /\ verdict = "" /\ verdict' = ""
                   /\ e.counts = extract_counts(result[idx], circuits[idx]).value
                   /\ e.prob_0 = m.prob_0 /\ e.prob_1 = m.prob_1
                   /\ e.theoretical_p0 = theoretical_zeno_probability(labels[idx][2])
        /\ verdict' # verdict =>
               /\ pc = "analyze" /\ idx > Len(labels)
               /\ \A i \in 1..Len(labels) :
                      zeno_key(labels[i]) \in DOMAIN processed_results
               /\ processed_results' = processed_results ]_vars

\* a finished run over the unobserved circuit and two Zeno circuits that
\* emitted a verdict
C24_Witness ==
    /\ program = "quantum-zeno-effect" /\ pc = "done"
    /\ Len(labels) = 3 /\ verdict # ""
    /\ labels[2] # labels[3]

-----------------------------------------------------------------------------
(* Further claims about every experiment run, under SpecRuns *)

\* C25: a run calls sampler.run at most once: not at all before its
\* circuits are ready, exactly once from then on, whether the call succeeded
\* (the run goes on to fetch, decode and analyse) or failed (the run ended
\* in main's handler), and every step that submits ends with one submission.
C25_SubmittedOnce ==
    [][ program # "none" =>
        /\ submitted' # submitted => (submitted = 0 /\ submitted' = 1 /\ pc = "submit")
        /\ pc' \in {"fetch", "decode", "analyze", "classify", "done"} => submitted' = 1
        /\ (pc = "submit" /\ pc' = "error") => submitted' = 1 ]_vars

\* a Zeno run whose one submission failed
C25_Witness ==
    /\ program = "quantum-zeno-effect" /\ pc = "error"
    /\ error = "ServiceError" /\ submitted = 1
    /\ Len(circuits) = 2

-----------------------------------------------------------------------------
(* Claims about the whole model, under Spec *)

\* C26: no derivation changes the histogram or the total it is given, no
\* step of analyze_results changes a stored entry, and in the CHSH and GHZ
\* runs an entry, once stored, keeps its histogram and total in every later
\* step of the run.
C26_HistogramsNeverMutated ==
    [][ /\ stat' # stat => (counts' = counts /\ total' = total)
        /\ pc \in {"analyze", "classify"} => processed_results' = processed_results
        /\ program \in {"chsh-bell", "ghz-paradox"} =>
               \A k \in DOMAIN processed_results :
                   /\ k \in DOMAIN processed_results'
                   /\ processed_results'[k] = processed_results[k] ]_vars

\* a finished CHSH analysis that still holds the histogram it read for A0B0
C26_Witness ==
    /\ program = "chsh-bell" /\ pc = "done"
    /\ processed_results["A0B0"].counts = H_same
    /\ correlators["A0B0"] = Rat(1, 1)

-----------------------------------------------------------------------------
(* Claims about the survival experiment, under SpecGen *)

\* the positions of the rotations in the survival circuit of the run
SurvivalRotations ==
    {i \in 1..Len(generated.circuit.ops) : generated.circuit.ops[i].op = "ry"}

\* C27: for N >= 1 the survival circuit built for N holds N + 1 rotations of
\* theta/(N + 1), the j-th followed by a measurement into classical bit
\* j - 1, and the theoretical survival stored for survival_N is the product
\* of as many factors as the circuit has rotations, each the cos^2 of half
\* the circuit's rotation angle.
C27_PredictionMatchesSurvivalCircuit ==
    (generator = "run_survival_experiment" /\ num_measurements >= 1) =>
        LET ops == generated.circuit.ops
            N == num_measurements
            t == generated.theoretical_survival
        IN  /\ generated.kind = "stored"
            /\ Cardinality(SurvivalRotations) = N + 1
            /\ \A i \in SurvivalRotations :
                   /\ ops[i].angle = Norm(1, N + 1)
                   /\ ops[i + 1].op = "measure"
                   /\ ops[i + 1].clbit
                         = Cardinality({j \in SurvivalRotations : j < i})
            /\ t.power = Cardinality(SurvivalRotations)
            /\ \A i \in SurvivalRotations :
                   RAdd(t.half_angle, t.half_angle) = ops[i].angle

-----------------------------------------------------------------------------
(* Claims about decoding misses in the CHSH run, under SpecCHSH *)

\* the run stored all five entries and the four CHSH settings are misses
AllSettingsMissed ==
    /\ program = "chsh-bell"
    /\ DOMAIN processed_results = {"A0B0", "A0B1", "A1B0", "A1B1", "classical"}
    /\ \A i \in 1..Len(chsh_settings) :
           processed_results[chsh_settings[i]].counts = EmptyHist

\* C28: a correlator computed from an empty histogram is exactly 0, and a
\* run whose four CHSH histograms are all empty does not end in an error:
\* its analysis finishes with S = 0 and the verdict no-violation.
C28_MissDoesNotStopClassification ==
    /\ program = "chsh-bell" =>
           \A k \in DOMAIN correlators :
               processed_results[k].counts = EmptyHist => correlators[k] = Rat(0, 1)
    /\ AllSettingsMissed =>
           /\ pc # "error"
           /\ pc = "done" => (S = Rat(0, 1) /\ verdict = "no_violation")

\* the same with a positive nominal shot count
MissWithPositiveShots ==
    shots > 0 => C28_MissDoesNotStopClassification

-----------------------------------------------------------------------------
(* Further claims about the GHZ run, under SpecGHZ *)

-----------------------------------------------------------------------------
(* Claims about the Zeno verdict, under SpecZeno *)

\* the measured P(0) values of the stored Zeno circuits
ZenoP0s == {processed_results[k].prob_0 : k \in ZenoEntries}

\* C30: a finished Zeno analysis with an unobserved entry and at least one
\* Zeno entry emitted exactly one verdict, fixed by the largest measured
\* P(0) of the Zeno circuits: "observed" when it exceeds the unobserved
\* P(0) by more than 0.05, "weak" when it exceeds it by at most 0.05,
\* "not observed" otherwise; with no Zeno entry no verdict was emitted.
C30_VerdictFromLargestP0 ==
    (program = "quantum-zeno-effect" /\ pc = "done") =>
        /\ ZenoEntries = {} => verdict = ""
        /\ (ZenoEntries # {} /\ <<"unobserved">> \in DOMAIN processed_results) =>
               LET largest == CHOOSE x \in ZenoP0s : \A y \in ZenoP0s : RLe(y, x)
                   excess == RSub(largest, processed_results[<<"unobserved">>].prob_0)
               IN  /\ verdict \in {"observed", "weak", "not_observed"}
                   /\ verdict = "observed" <=> RGt(excess, Rat(1, 20))
                   /\ verdict = "weak" <=>
                          (RGt(excess, Rat(0, 1)) /\ RLe(excess, Rat(1, 20)))
                   /\ verdict = "not_observed" <=> RLe(excess, Rat(0, 1))

\* a finished run with two Zeno circuits where the one with fewer
\* measurements has the larger P(0), 1/20 above the unobserved one
C30_Witness ==
    /\ program = "quantum-zeno-effect" /\ pc = "done"
    /\ measurement_counts = <<1, 2>>
    /\ processed_results[<<"unobserved">>].prob_0 = Rat(1, 4)
    /\ processed_results[<<"zeno", 1>>].prob_0 = Rat(3, 10)
    /\ processed_results[<<"zeno", 2>>].prob_0 = Rat(0, 1)
    /\ verdict = "weak"

====
